---------------------------- MODULE Spec2Model ----------------------------
(***************************************************************************)
(* Model of heimdallr/channel/wecom.py: the two WeCom message renderers    *)
(* (WecomWebhookMessage, WecomAppMessage) and the two channels             *)
(* (WecomWebhook, WecomApp).                                               *)
(*                                                                         *)
(* Python strings are modelled as sequences of one-character strings, so   *)
(* that f-string formatting is concatenation and json.dumps is an actual   *)
(* encoding that a decoder has to undo.                                    *)
(***************************************************************************)
EXTENDS Integers, Sequences, FiniteSets, TLC

VARIABLES config, authServer, msg, webhook, app, lastCall

vars == <<config, authServer, msg, webhook, app, lastCall>>

(***************************************************************************)
(* String literals of the source.                                          *)
(***************************************************************************)
WecomWebhook_base_url ==
    <<"h", "t", "t", "p", "s", ":", "/", "/", "q", "y", "a", "p",
    "i", ".", "w", "e", "i", "x", "i", "n", ".", "q", "q", ".",
    "c", "o", "m", "/", "c", "g", "i", "-", "b", "i", "n", "/",
    "w", "e", "b", "h", "o", "o", "k", "/", "s", "e", "n", "d",
    "?", "k", "e", "y", "=">>

WecomApp_base_url ==
    <<"h", "t", "t", "p", "s", ":", "/", "/", "q", "y", "a", "p",
    "i", ".", "w", "e", "i", "x", "i", "n", ".", "q", "q", ".",
    "c", "o", "m", "/", "c", "g", "i", "-", "b", "i", "n", "/",
    "m", "e", "s", "s", "a", "g", "e", "/", "s", "e", "n", "d",
    "?", "a", "c", "c", "e", "s", "s", "_", "t", "o", "k", "e",
    "n", "=">>

S_auth_url_corpid ==
    <<"h", "t", "t", "p", "s", ":", "/", "/", "q", "y", "a", "p",
    "i", ".", "w", "e", "i", "x", "i", "n", ".", "q", "q", ".",
    "c", "o", "m", "/", "c", "g", "i", "-", "b", "i", "n", "/",
    "g", "e", "t", "t", "o", "k", "e", "n", "?", "c", "o", "r",
    "p", "i", "d", "=">>

S_auth_url_corpsecret ==
    <<"&", "c", "o", "r", "p", "s", "e", "c", "r", "e", "t", "=">>

S_unsupported ==
    <<"U", "n", "s", "u", "p", "p", "o", "r", "t", "e", "d", " ",
    "m", "e", "s", "s", "a", "g", "e", " ", "t", "y", "p", "e">>

S_key_not_set ==
    <<"W", "e", "c", "o", "m", "W", "e", "b", "h", "o", "o", "k",
    " ", "k", "e", "y", " ", "n", "o", "t", " ", "s", "e", "t">>

S_invalid_message ==
    <<"I", "n", "v", "a", "l", "i", "d", " ", "m", "e", "s", "s",
    "a", "g", "e", " ", "t", "y", "p", "e">>

S_corp_not_set ==
    <<"c", "o", "r", "p", " ", "i", "d", " ", "o", "r", " ", "s",
    "e", "c", "r", "e", "t", " ", "n", "o", "t", " ", "s", "e",
    "t">>

S_failed_token ==
    <<"F", "a", "i", "l", "e", "d", " ", "t", "o", " ", "g", "e",
    "t", " ", "a", "c", "c", "e", "s", "s", " ", "t", "o", "k",
    "e", "n", ":", " ">>

S_msgtype ==
    <<"m", "s", "g", "t", "y", "p", "e">>

S_text ==
    <<"t", "e", "x", "t">>

S_markdown ==
    <<"m", "a", "r", "k", "d", "o", "w", "n">>

S_content ==
    <<"c", "o", "n", "t", "e", "n", "t">>

S_touser ==
    <<"t", "o", "u", "s", "e", "r">>

S_all ==
    <<"@", "a", "l", "l">>

S_agentid ==
    <<"a", "g", "e", "n", "t", "i", "d">>

S_safe ==
    <<"s", "a", "f", "e">>

S_md_title ==
    <<"#", "#", "#", " ">>

S_md_body ==
    <<"\n", ">", " ">>

S_nl ==
    <<"\n">>

(***************************************************************************)
(* JSON values: the dicts built by render_message and what json.dumps      *)
(* makes of them.  A value is a string, an integer or an object; an object *)
(* is the sequence of its members in insertion order.                      *)
(***************************************************************************)
JStr(s) == [t |-> "str", s |-> s, n |-> 0, o |-> <<>>]

JInt(n) == [t |-> "int", s |-> <<>>, n |-> n, o |-> <<>>]

JObj(members) == [t |-> "obj", s |-> <<>>, n |-> 0, o |-> members]

Member(k, v) == [k |-> k, v |-> v]

JNone == [t |-> "none", s |-> <<>>, n |-> 0, o |-> <<>>]

\* json.dumps of one character inside a string (ensure_ascii escapes)
EscapeChar(c) ==
    IF c = "\"" THEN <<"\\", "\"">>
    ELSE IF c = "\\" THEN <<"\\", "\\">>
    ELSE IF c = "\n" THEN <<"\\", "n">>
    ELSE <<c>>

RECURSIVE EscapeChars(_)
EscapeChars(s) ==
    IF s = <<>> THEN <<>> ELSE EscapeChar(Head(s)) \o EscapeChars(Tail(s))

EncodeString(s) == <<"\"">> \o EscapeChars(s) \o <<"\"">>

Digits == <<"0", "1", "2", "3", "4", "5", "6", "7", "8", "9">>

RECURSIVE EncodeNat(_)
EncodeNat(n) ==
    IF n < 10 THEN <<Digits[n + 1]>>
    ELSE EncodeNat(n \div 10) \o <<Digits[(n % 10) + 1]>>

\* json.dumps with the default separators (", " and ": ")
RECURSIVE json_dumps(_)
RECURSIVE EncodeMembers(_, _)
EncodeMembers(ms, i) ==
    IF i > Len(ms) THEN <<>>
    ELSE (IF i > 1 THEN <<",", " ">> ELSE <<>>)
         \o EncodeString(ms[i].k) \o <<":", " ">> \o json_dumps(ms[i].v)
         \o EncodeMembers(ms, i + 1)

json_dumps(v) ==
    IF v.t = "str" THEN EncodeString(v.s)
    ELSE IF v.t = "int" THEN EncodeNat(v.n)
    ELSE <<"{">> \o EncodeMembers(v.o, 1) \o <<"}">>

(***************************************************************************)
(* The receiving side: a JSON decoder (RFC 8259 subset: objects, strings,  *)
(* non-negative integers), used to read back what was rendered or posted.  *)
(***************************************************************************)
ParseFail == [ok |-> FALSE, v |-> JNone, next |-> 0]

ParseOk(v, next) == [ok |-> TRUE, v |-> v, next |-> next]

RECURSIVE SkipWs(_, _)
SkipWs(s, i) ==
    IF i <= Len(s) /\ s[i] = " " THEN SkipWs(s, i + 1) ELSE i

Unescape(c) ==
    IF c = "n" THEN "\n" ELSE c

RECURSIVE ScanString(_, _, _)
ScanString(s, i, acc) ==
    IF i > Len(s) THEN ParseFail
    ELSE IF s[i] = "\"" THEN ParseOk(JStr(acc), i + 1)
    ELSE IF s[i] = "\n" THEN ParseFail
    ELSE IF s[i] = "\\"
         THEN IF i + 1 <= Len(s) /\ s[i + 1] \in {"\"", "\\", "n"}
              THEN ScanString(s, i + 2, Append(acc, Unescape(s[i + 1])))
              ELSE ParseFail
    ELSE ScanString(s, i + 1, Append(acc, s[i]))

DigitValue(c) == CHOOSE d \in 0..9 : Digits[d + 1] = c

IsDigit(c) == \E d \in 1..10 : Digits[d] = c

RECURSIVE ScanNat(_, _, _)
ScanNat(s, i, acc) ==
    IF i <= Len(s) /\ IsDigit(s[i])
    THEN ScanNat(s, i + 1, acc * 10 + DigitValue(s[i]))
    ELSE ParseOk(JInt(acc), i)

RECURSIVE ParseValue(_, _)
RECURSIVE ParseMembers(_, _, _)
ParseMembers(s, i0, acc) ==
    LET i == SkipWs(s, i0) IN
    IF i > Len(s) \/ s[i] # "\"" THEN ParseFail
    ELSE LET k == ScanString(s, i + 1, <<>>) IN
         IF ~k.ok THEN ParseFail
         ELSE LET c == SkipWs(s, k.next) IN
              IF c > Len(s) \/ s[c] # ":" THEN ParseFail
              ELSE LET v == ParseValue(s, c + 1) IN
                   IF ~v.ok THEN ParseFail
                   ELSE LET e == SkipWs(s, v.next)
                            ms == Append(acc, Member(k.v.s, v.v))
                        IN  IF e > Len(s) THEN ParseFail
                            ELSE IF s[e] = "}" THEN ParseOk(JObj(ms), e + 1)
                            ELSE IF s[e] = "," THEN ParseMembers(s, e + 1, ms)
                            ELSE ParseFail

ParseValue(s, i0) ==
    LET i == SkipWs(s, i0) IN
    IF i > Len(s) THEN ParseFail
    ELSE IF s[i] = "\"" THEN ScanString(s, i + 1, <<>>)
    ELSE IF IsDigit(s[i]) THEN ScanNat(s, i, 0)
    ELSE IF s[i] = "{"
         THEN LET j == SkipWs(s, i + 1) IN
              IF j <= Len(s) /\ s[j] = "}" THEN ParseOk(JObj(<<>>), j + 1)
              ELSE ParseMembers(s, i + 1, <<>>)
    ELSE ParseFail

json_loads(s) ==
    LET r == ParseValue(s, 1) IN
    IF r.ok /\ SkipWs(s, r.next) > Len(s) THEN r.v ELSE JNone

HasKey(obj, k) == obj.t = "obj" /\ \E i \in 1..Len(obj.o) : obj.o[i].k = k

Get(obj, k) ==
    IF HasKey(obj, k)
    THEN obj.o[CHOOSE i \in 1..Len(obj.o) : obj.o[i].k = k].v
    ELSE JNone

Keys(obj) == {obj.o[i].k : i \in 1..Len(obj.o)}

(***************************************************************************)
(* Bounds and input domains.                                               *)
(***************************************************************************)
MaxLen == 1

Alphabet == {"a", "\"", "\\", "\n"}

StringsUpTo(n) == UNION {[1..k -> Alphabet] : k \in 0..n}

MsgTypes == {"text", "markdown", "image"}

AgentIds == {<<>>, <<"7">>}

Titles == {<<"t">>}

Bodies == {<<"b">>, <<"\"">>}

ConfigValues(v) == {<<>>, v}

S_ok == <<"o", "k">>

S_bad == <<"b", "a", "d">>

Token == <<"T">>

(***************************************************************************)
(* Outcomes of a call: a returned value or a raised exception.             *)
(***************************************************************************)
NoResult == [kind |-> "none", exc |-> "", msg |-> <<>>, ok |-> FALSE, text |-> <<>>]

Returned(ok, text) ==
    [kind |-> "return", exc |-> "", msg |-> <<>>, ok |-> ok, text |-> text]

Raised(exc, m) ==
    [kind |-> "raise", exc |-> exc, msg |-> m, ok |-> FALSE, text |-> <<>>]

(***************************************************************************)
(* Messages.                                                               *)
(***************************************************************************)
NoMsg ==
    [variant |-> "none", title |-> <<>>, body |-> <<>>, msg_type |-> "",
     has_agent_id |-> FALSE, agent_id |-> <<>>]

WecomWebhookMessage(title, body, msg_type) ==
    [variant |-> "webhook", title |-> title, body |-> body,
     msg_type |-> msg_type, has_agent_id |-> FALSE, agent_id |-> <<>>]

\* agent_id is declared on the class but not assigned by __init__
WecomAppMessage(title, body, msg_type) ==
    [variant |-> "app", title |-> title, body |-> body,
     msg_type |-> msg_type, has_agent_id |-> FALSE, agent_id |-> <<>>]

WithAgentId(m, a) == [m EXCEPT !.has_agent_id = TRUE, !.agent_id = a]

TextContent(m) == m.title \o S_nl \o m.body

\* variant: the body is not quoted
MarkdownContent_unquoted(m) == S_md_title \o m.title \o S_nl \o m.body

MarkdownContent(m) == S_md_title \o m.title \o S_md_body \o m.body

WecomWebhookMessage_render_message(m) ==
    IF m.msg_type = "text"
    THEN Returned(TRUE, json_dumps(JObj(<<
             Member(S_msgtype, JStr(S_text)),
             Member(S_text, JObj(<<Member(S_content, JStr(TextContent(m)))>>))>>)))
    ELSE IF m.msg_type = "markdown"
    THEN Returned(TRUE, json_dumps(JObj(<<
             Member(S_msgtype, JStr(S_markdown)),
             Member(S_markdown,
                    JObj(<<Member(S_content, JStr(MarkdownContent(m)))>>))>>)))
    ELSE Raised("WecomException", S_unsupported)

WecomAppMessage_render_message(m) ==
    IF m.msg_type \in {"text", "markdown"} /\ ~m.has_agent_id
    THEN Raised("AttributeError", S_agentid)
    ELSE IF m.msg_type = "text"
    THEN Returned(TRUE, json_dumps(JObj(<<
             Member(S_touser, JStr(S_all)),
             Member(S_msgtype, JStr(S_text)),
             Member(S_agentid, JStr(m.agent_id)),
             Member(S_text, JObj(<<Member(S_content, JStr(TextContent(m)))>>)),
             Member(S_safe, JInt(0))>>)))
    ELSE IF m.msg_type = "markdown"
    THEN Returned(TRUE, json_dumps(JObj(<<
             Member(S_touser, JStr(S_all)),
             Member(S_msgtype, JStr(S_markdown)),
             Member(S_agentid, JStr(m.agent_id)),
             Member(S_markdown,
                    JObj(<<Member(S_content, JStr(MarkdownContent(m)))>>)),
             Member(S_safe, JInt(0))>>)))
    ELSE Raised("WecomException", S_unsupported)

(***************************************************************************)
(* The network.  A reply is a parsed JSON object, a transport failure or   *)
(* a body that is not JSON.  A parsed object is the set of keys it has and *)
(* their values.                                                           *)
(***************************************************************************)
Dict(keys, errcode, errmsg, token) ==
    [keys |-> keys, errcode |-> errcode, errmsg |-> errmsg,
     access_token |-> token]

JsonReply(d) == [kind |-> "json", rs |-> d]

TransportFailure == [kind |-> "transport", rs |-> Dict({}, 0, <<>>, <<>>)]

NotJson == [kind |-> "badjson", rs |-> Dict({}, 0, <<>>, <<>>)]

SendReplies ==
    { JsonReply(Dict({"errcode", "errmsg"}, 0, S_ok, <<>>)),
      JsonReply(Dict({"errcode", "errmsg"}, 93000, S_bad, <<>>)),
      JsonReply(Dict({"errcode", "errmsg"}, 1, S_ok, <<>>)),
      JsonReply(Dict({"errmsg"}, 0, S_ok, <<>>)),
      JsonReply(Dict({"errcode"}, 0, <<>>, <<>>)),
      TransportFailure, NotJson }

AuthReplies ==
    { JsonReply(Dict({"errcode", "errmsg", "access_token"}, 0, S_ok, Token)),
      JsonReply(Dict({"errcode", "errmsg"}, 1, S_bad, <<>>)),
      JsonReply(Dict({"errmsg"}, 0, S_bad, <<>>)),
      TransportFailure }

Request(method, url, data, content_type) ==
    [method |-> method, url |-> url, data |-> data,
     content_type |-> content_type]

\* requests.<verb>(...).json(): the exception it raises, or "" when it
\* yields the parsed object
JsonFault(reply) ==
    IF reply.kind = "transport" THEN "ConnectionError"
    ELSE IF reply.kind = "badjson" THEN "JSONDecodeError"
    ELSE ""

\* variant: a platform rejection is raised instead of returned
InterpretResponse_raising(rs) ==
    IF "errcode" \notin rs.keys THEN Raised("KeyError", <<>>)
    ELSE IF "errmsg" \notin rs.keys THEN Raised("KeyError", <<>>)
    ELSE IF rs.errcode = 0 THEN Returned(TRUE, rs.errmsg)
    ELSE Raised("WecomException", rs.errmsg)

\* lines 95-97 and 137-139: interpret the {errcode, errmsg} envelope
InterpretResponse(rs) ==
    IF "errcode" \notin rs.keys THEN Raised("KeyError", <<>>)
    ELSE IF "errmsg" \notin rs.keys THEN Raised("KeyError", <<>>)
    ELSE IF rs.errcode = 0 THEN Returned(TRUE, rs.errmsg)
    ELSE Returned(FALSE, rs.errmsg)

\* variant: a failed POST is issued a second time
PostAndInterpret_retry(url, data, reply) ==
    [requests |-> IF JsonFault(reply) # ""
                  THEN <<Request("POST", url, data, "application/json"),
                         Request("POST", url, data, "application/json")>>
                  ELSE <<Request("POST", url, data, "application/json")>>,
     result |-> IF JsonFault(reply) # ""
                THEN Raised(JsonFault(reply), <<>>)
                ELSE InterpretResponse(reply.rs)]

\* what one requests.post(url, data=..., headers=...).json() call does:
\* the requests it issues and the outcome of send
PostAndInterpret(url, data, reply) ==
    [requests |-> <<Request("POST", url, data, "application/json")>>,
     result |-> IF JsonFault(reply) # ""
                THEN Raised(JsonFault(reply), <<>>)
                ELSE InterpretResponse(reply.rs)]

NoRequests == <<>>

NoReply == [kind |-> "none", rs |-> Dict({}, 0, <<>>, <<>>)]

\* the reply a call consumed: none when it issued no request
Consumed(requests, reply) == IF requests = <<>> THEN NoReply ELSE reply

Call(op, arg, result, requests, reply) ==
    [op |-> op, arg |-> arg, result |-> result, requests |-> requests,
     reply |-> Consumed(requests, reply)]

(***************************************************************************)
(* Channels.  `state' is the life cycle of the instance as its caller sees *)
(* it: "Uninitialized" before the constructor runs, "Ready" once the       *)
(* constructor has returned the instance, "Failed" when it raised.         *)
(***************************************************************************)
NewWecomWebhook == [state |-> "Uninitialized", name |-> "", key |-> <<>>]

NewWecomApp ==
    [state |-> "Uninitialized", name |-> "", corp_id |-> <<>>,
     secret |-> <<>>, access_token |-> <<>>, agent_id |-> <<>>]

ChannelName == "wecom"

Effect(self, message, result, requests) ==
    [self |-> self, message |-> message, result |-> result,
     requests |-> requests]

\* heimdallr.channel.base.Channel.__init__
Channel_init(self, name) == [self EXCEPT !.name = name]

\* variant: the key is not checked
WecomWebhook_build_channel_unchecked(self, cfg) ==
    Effect([self EXCEPT !.key = cfg.key], NoMsg, Returned(TRUE, <<>>),
           NoRequests)

WecomWebhook_build_channel(self, cfg) ==
    LET s1 == [self EXCEPT !.key = cfg.key] IN
    IF s1.key = <<>>
    THEN Effect(s1, NoMsg, Raised("WecomException", S_key_not_set), NoRequests)
    ELSE Effect(s1, NoMsg, Returned(TRUE, <<>>), NoRequests)

WecomWebhook_init(self, name, cfg) ==
    WecomWebhook_build_channel(Channel_init(self, name), cfg)

WecomWebhook_send(self, message, reply) ==
    IF message.variant # "webhook"
    THEN Effect(self, message, Raised("WecomException", S_invalid_message),
                NoRequests)
    ELSE LET url == WecomWebhook_base_url \o self.key
             data == WecomWebhookMessage_render_message(message)
         IN  IF data.kind = "raise"
             THEN Effect(self, message, data, NoRequests)
             ELSE LET p == PostAndInterpret(url, data.text, reply) IN
                  Effect(self, message, p.result, p.requests)

WecomApp_init(self, name) ==
    Effect(Channel_init(self, name), NoMsg, Returned(TRUE, <<>>), NoRequests)

AuthUrl(corp_id, secret) ==
    S_auth_url_corpid \o corp_id \o S_auth_url_corpsecret \o secret

WecomApp_build_channel(self, cfg, reply) ==
    LET s1 == [self EXCEPT !.corp_id = cfg.corp_id, !.secret = cfg.secret]
        get == <<Request("GET", AuthUrl(s1.corp_id, s1.secret), <<>>, "")>>
    IN  IF s1.corp_id = <<>> \/ s1.secret = <<>>
        THEN Effect(s1, NoMsg, Raised("WecomException", S_corp_not_set),
                    NoRequests)
        ELSE IF JsonFault(reply) # ""
        THEN Effect(s1, NoMsg, Raised(JsonFault(reply), <<>>), get)
        ELSE IF "errcode" \notin reply.rs.keys
        THEN Effect(s1, NoMsg, Raised("KeyError", <<>>), get)
        ELSE IF reply.rs.errcode = 0
        THEN IF "access_token" \notin reply.rs.keys
             THEN Effect(s1, NoMsg, Raised("KeyError", <<>>), get)
             ELSE Effect([s1 EXCEPT !.access_token = reply.rs.access_token],
                         NoMsg, Returned(TRUE, <<>>), get)
        ELSE IF "errmsg" \notin reply.rs.keys
        THEN Effect(s1, NoMsg, Raised("KeyError", <<>>), get)
        ELSE Effect(s1, NoMsg,
                    Raised("WecomException", S_failed_token \o reply.rs.errmsg),
                    get)

\* variant: no isinstance check, the message renders itself
WecomApp_send_unchecked(self, message, reply) ==
    LET m1 == WithAgentId(message, self.agent_id)
        data == IF message.variant = "app"
                THEN WecomAppMessage_render_message(m1)
                ELSE WecomWebhookMessage_render_message(m1)
        url == WecomApp_base_url \o self.access_token
    IN  IF data.kind = "raise"
        THEN Effect(self, m1, data, NoRequests)
        ELSE LET p == PostAndInterpret(url, data.text, reply) IN
             Effect(self, m1, p.result, p.requests)

\* variant: the assignment is the other way round (self.agent_id =
\* message.agent_id)
WecomApp_send_storing(self, message, reply) ==
    IF message.variant # "app"
    THEN Effect(self, message, Raised("WecomException", S_invalid_message),
                NoRequests)
    ELSE IF ~message.has_agent_id
    THEN Effect(self, message, Raised("AttributeError", S_agentid), NoRequests)
    ELSE LET s1 == [self EXCEPT !.agent_id = message.agent_id]
             data == WecomAppMessage_render_message(message)
             url == WecomApp_base_url \o s1.access_token
         IN  IF data.kind = "raise"
             THEN Effect(s1, message, data, NoRequests)
             ELSE LET p == PostAndInterpret(url, data.text, reply) IN
                  Effect(s1, message, p.result, p.requests)

\* variant: an agent_id the caller has set is kept
WecomApp_send_keeping(self, message, reply) ==
    IF message.variant # "app"
    THEN Effect(self, message, Raised("WecomException", S_invalid_message),
                NoRequests)
    ELSE LET m1 == IF message.has_agent_id THEN message
                   ELSE WithAgentId(message, self.agent_id)
             data == WecomAppMessage_render_message(m1)
             url == WecomApp_base_url \o self.access_token
         IN  IF data.kind = "raise"
             THEN Effect(self, m1, data, NoRequests)
             ELSE LET p == PostAndInterpret(url, data.text, reply) IN
                  Effect(self, m1, p.result, p.requests)

WecomApp_send(self, message, reply) ==
    IF message.variant # "app"
    THEN Effect(self, message, Raised("WecomException", S_invalid_message),
                NoRequests)
    ELSE LET m1 == WithAgentId(message, self.agent_id)
             data == WecomAppMessage_render_message(m1)
             url == WecomApp_base_url \o self.access_token
         IN  IF data.kind = "raise"
             THEN Effect(self, m1, data, NoRequests)
             ELSE LET p == PostAndInterpret(url, data.text, reply) IN
                  Effect(self, m1, p.result, p.requests)

(***************************************************************************)
(* State machine.                                                          *)
(***************************************************************************)
Configs ==
    [key : ConfigValues(<<"k">>), corp_id : ConfigValues(<<"c">>),
     secret : ConfigValues(<<"s">>)]

NoCall == Call("none", NoMsg, NoResult, NoRequests, NoReply)

Init ==
    /\ config \in Configs
    /\ authServer \in AuthReplies
    /\ msg = NoMsg
    /\ webhook = NewWecomWebhook
    /\ app = NewWecomApp
    /\ lastCall = NoCall

LifeCycle(result) == IF result.kind = "raise" THEN "Failed" ELSE "Ready"

\* message = WecomWebhookMessage(title, body, msg_type)
NewWebhookMessage ==
    /\ \E t \in Titles, b \in Bodies, mt \in MsgTypes :
          msg' = WecomWebhookMessage(t, b, mt)
    /\ lastCall' = Call("WecomWebhookMessage", NoMsg, NoResult, NoRequests, NoReply)
    /\ UNCHANGED <<config, authServer, webhook, app>>

\* message = WecomAppMessage(title, body, msg_type)
NewAppMessage ==
    /\ \E t \in Titles, b \in Bodies, mt \in MsgTypes :
          msg' = WecomAppMessage(t, b, mt)
    /\ lastCall' = Call("WecomAppMessage", NoMsg, NoResult, NoRequests, NoReply)
    /\ UNCHANGED <<config, authServer, webhook, app>>

\* message.agent_id = a, done by the caller
SetAgentId ==
    /\ msg.variant = "app"
    /\ \E a \in AgentIds : msg' = WithAgentId(msg, a)
    /\ lastCall' = Call("set_agent_id", msg, NoResult, NoRequests, NoReply)
    /\ UNCHANGED <<config, authServer, webhook, app>>

\* WecomWebhook(name)
ConstructWebhook ==
    /\ webhook.state = "Uninitialized"
    /\ LET e == WecomWebhook_init(webhook, ChannelName, config) IN
          /\ webhook' = [e.self EXCEPT !.state = LifeCycle(e.result)]
          /\ lastCall' = Call("WecomWebhook", NoMsg, e.result, e.requests, NoReply)
    /\ UNCHANGED <<config, authServer, msg, app>>

\* WecomApp(name)
ConstructApp ==
    /\ app.state = "Uninitialized"
    /\ LET e == WecomApp_init(app, ChannelName) IN
          /\ app' = [e.self EXCEPT !.state = LifeCycle(e.result)]
          /\ lastCall' = Call("WecomApp", NoMsg, e.result, e.requests, NoReply)
    /\ UNCHANGED <<config, authServer, msg, webhook>>

\* app._build_channel(), which no code of the module calls on a WecomApp
BuildApp ==
    /\ app.state = "Ready"
    /\ LET e == WecomApp_build_channel(app, config, authServer) IN
          /\ app' = e.self
          /\ lastCall' = Call("WecomApp._build_channel", NoMsg, e.result,
                              e.requests, authServer)
    /\ UNCHANGED <<config, authServer, msg, webhook>>

\* webhook.send(message)
SendWebhook ==
    /\ webhook.state = "Ready"
    /\ msg.variant # "none"
    /\ \E reply \in SendReplies :
          LET e == WecomWebhook_send(webhook, msg, reply) IN
          /\ webhook' = e.self
          /\ msg' = e.message
          /\ lastCall' = Call("WecomWebhook.send", msg, e.result, e.requests,
                              reply)
    /\ UNCHANGED <<config, authServer, app>>

\* app.send(message)
SendApp ==
    /\ app.state = "Ready"
    /\ msg.variant # "none"
    /\ \E reply \in SendReplies :
          LET e == WecomApp_send(app, msg, reply) IN
          /\ app' = e.self
          /\ msg' = e.message
          /\ lastCall' = Call("WecomApp.send", msg, e.result, e.requests, reply)
    /\ UNCHANGED <<config, authServer, webhook>>

Next ==
    \/ NewWebhookMessage
    \/ NewAppMessage
    \/ SetAgentId
    \/ ConstructWebhook
    \/ ConstructApp
    \/ BuildApp
    \/ SendWebhook
    \/ SendApp

Spec == Init /\ [][Next]_vars

(***************************************************************************)
(* Rendering on its own: every message over the alphabet up to MaxLen,     *)
(* rendered by a direct call of render_message.                            *)
(***************************************************************************)
RenderInputs ==
    LET S == StringsUpTo(MaxLen) IN
    {WecomWebhookMessage(t, b, mt) : t \in S, b \in S, mt \in MsgTypes}
    \cup {WecomAppMessage(t, b, mt) : t \in S, b \in S, mt \in MsgTypes}
    \cup UNION {{WithAgentId(WecomAppMessage(t, b, mt), a) :
                   t \in S, b \in S, mt \in MsgTypes} : a \in AgentIds}

InitRender ==
    /\ config = [key |-> <<>>, corp_id |-> <<>>, secret |-> <<>>]
    /\ authServer = TransportFailure
    /\ msg \in RenderInputs
    /\ webhook = NewWecomWebhook
    /\ app = NewWecomApp
    /\ lastCall = NoCall

\* message.render_message() on a webhook message
RenderWebhookMessage ==
    /\ msg.variant = "webhook"
    /\ lastCall' = Call("WecomWebhookMessage.render_message", msg,
                        WecomWebhookMessage_render_message(msg), NoRequests,
                        NoReply)
    /\ UNCHANGED <<config, authServer, msg, webhook, app>>

\* message.render_message() on an app message
RenderAppMessage ==
    /\ msg.variant = "app"
    /\ lastCall' = Call("WecomAppMessage.render_message", msg,
                        WecomAppMessage_render_message(msg), NoRequests,
                        NoReply)
    /\ UNCHANGED <<config, authServer, msg, webhook, app>>

NextRender == RenderWebhookMessage \/ RenderAppMessage

SpecRender == InitRender /\ [][NextRender]_vars

(***************************************************************************)
(* Properties.                                                             *)
(***************************************************************************)
SendOps == {"WecomWebhook.send", "WecomApp.send"}

RenderOps ==
    {"WecomWebhookMessage.render_message", "WecomAppMessage.render_message"}

CredentialsConfigured == config.corp_id # <<>> /\ config.secret # <<>>

ExchangeGrants ==
    /\ authServer.kind = "json"
    /\ {"errcode", "access_token"} \subseteq authServer.rs.keys
    /\ authServer.rs.errcode = 0

ExchangeRejects ==
    /\ authServer.kind = "json"
    /\ {"errcode", "errmsg"} \subseteq authServer.rs.keys
    /\ authServer.rs.errcode # 0

Posts(requests) == {i \in 1..Len(requests) : requests[i].method = "POST"}

Supported(m) == m.msg_type \in {"text", "markdown"}

\* C1: a WecomApp constructed with non-empty corp id and secret, while the
\* credential exchange answers errcode 0 with access_token T, is Ready with
\* access_token = T (non-empty), and every send of it POSTs to base_url
\* followed by T.
C1_ReadyAppHoldsExchangedToken ==
    (app.state = "Ready" /\ CredentialsConfigured /\ ExchangeGrants) =>
        /\ app.access_token = authServer.rs.access_token
        /\ app.access_token # <<>>
        /\ lastCall.op = "WecomApp.send" =>
              \A i \in 1..Len(lastCall.requests) :
                 lastCall.requests[i].url
                    = WecomApp_base_url \o authServer.rs.access_token

\* C2: constructing a WecomApp whose configured corp id or secret is empty
\* fails with WecomException("corp id or secret not set") before any network
\* call, and no WecomApp with an empty corp_id or secret can be sent on.
C2_NoAppWithoutCredentials ==
    /\ (lastCall.op = "WecomApp" /\ ~CredentialsConfigured) =>
          /\ lastCall.result = Raised("WecomException", S_corp_not_set)
          /\ lastCall.requests = <<>>
    /\ app.state = "Ready" => (app.corp_id # <<>> /\ app.secret # <<>>)

\* C3: constructing a WecomApp while the credential exchange answers with
\* errcode # 0 fails with WecomException carrying the errmsg of the answer;
\* the channel never becomes Ready, and no send is issued with an unset
\* access_token.
C3_RejectedExchangeFailsConstruction ==
    /\ (CredentialsConfigured /\ ExchangeRejects) =>
          /\ app.state # "Ready"
          /\ lastCall.op = "WecomApp" =>
                lastCall.result
                   = Raised("WecomException",
                            S_failed_token \o authServer.rs.errmsg)
    /\ lastCall.op = "WecomApp.send" =>
          \A i \in 1..Len(lastCall.requests) :
             lastCall.requests[i].url # WecomApp_base_url

C4_StateInv ==
    /\ webhook.state = "Failed" => config.key = <<>>
    /\ webhook.state = "Ready" => (config.key # <<>> /\ webhook.key = config.key)
    /\ lastCall.op = "WecomWebhook" =>
          /\ lastCall.requests = <<>>
          /\ IF config.key = <<>>
             THEN /\ lastCall.result = Raised("WecomException", S_key_not_set)
                  /\ webhook.state = "Failed"
             ELSE /\ lastCall.result.kind = "return"
                  /\ webhook.state = "Ready"
    /\ lastCall.op = "WecomWebhook.send" => webhook.state = "Ready"

\* C4: constructing a WecomWebhook with an empty configured key fails with
\* WecomException("WecomWebhook key not set") and the channel stays Failed
\* for ever (no send on it); with a non-empty key the channel is Ready with
\* key equal to the configured value, and construction issues no request.
C4_WebhookConstruction ==
    /\ []C4_StateInv
    /\ [][webhook.state = "Failed" => webhook'.state = "Failed"]_vars

C4_Witness ==
    /\ lastCall.op = "WecomWebhook"
    /\ webhook.state = "Failed"
    /\ lastCall.result.exc = "WecomException"

\* C5: send on a WecomWebhook given an app message, and send on a WecomApp
\* given a webhook message, raises WecomException("Invalid message type")
\* and issues no request, whatever the msg_type of the message (the check
\* precedes rendering and the POST).
C5_WrongVariantRejected ==
    /\ (lastCall.op = "WecomWebhook.send" /\ lastCall.arg.variant = "app") =>
          /\ lastCall.result = Raised("WecomException", S_invalid_message)
          /\ lastCall.requests = <<>>
    /\ (lastCall.op = "WecomApp.send" /\ lastCall.arg.variant = "webhook") =>
          /\ lastCall.result = Raised("WecomException", S_invalid_message)
          /\ lastCall.requests = <<>>

C5_Witness ==
    /\ lastCall.op = "WecomApp.send"
    /\ lastCall.arg.variant = "webhook"
    /\ lastCall.arg.msg_type = "image"
    /\ lastCall.result.kind = "raise"

\* C6: when send gets a reply that has errcode and errmsg, it returns
\* (TRUE, errmsg) if errcode = 0 and (FALSE, errmsg) otherwise; it never
\* raises on a platform rejection.
C6_ResultFollowsErrcode ==
    (/\ lastCall.op \in SendOps
     /\ lastCall.reply.kind = "json"
     /\ {"errcode", "errmsg"} \subseteq lastCall.reply.rs.keys) =>
        /\ lastCall.result.kind = "return"
        /\ lastCall.result.ok <=> (lastCall.reply.rs.errcode = 0)
        /\ lastCall.result.text = lastCall.reply.rs.errmsg

C6_Witness ==
    /\ lastCall.op = "WecomWebhook.send"
    /\ lastCall.reply.kind = "json"
    /\ lastCall.reply.rs.errcode = 93000
    /\ lastCall.result = Returned(FALSE, S_bad)

ExpectedContent(m) ==
    IF m.msg_type = "text"
    THEN m.title \o <<"\n">> \o m.body
    ELSE <<"#", "#", "#", " ">> \o m.title \o <<"\n", ">", " ">> \o m.body

ExpectedKind(m) == IF m.msg_type = "text" THEN S_text ELSE S_markdown

\* C7: render_message of a message whose msg_type is text or markdown (an
\* app message having its agent_id set) returns JSON that decodes to an
\* object with msgtype, and under the key "text" resp. "markdown" the
\* content title, newline, body resp. "### " title, newline, "> " body; the
\* app variant has, in addition, touser "@all", safe 0 and agentid; for any
\* other msg_type it raises WecomException("Unsupported message type") and
\* returns nothing.
C7_RenderedPayload ==
    lastCall.op \in RenderOps =>
        LET m == lastCall.arg
            r == lastCall.result
            v == json_loads(r.text)
        IN  IF ~Supported(m)
            THEN r = Raised("WecomException", S_unsupported)
            ELSE IF m.variant = "app" /\ ~m.has_agent_id
            THEN r.kind = "raise"
            ELSE /\ r.kind = "return"
                 /\ v.t = "obj"
                 /\ Get(v, S_msgtype) = JStr(ExpectedKind(m))
                 /\ Get(v, ExpectedKind(m))
                       = JObj(<<Member(S_content, JStr(ExpectedContent(m)))>>)
                 /\ IF m.variant = "webhook"
                    THEN Keys(v) = {S_msgtype, ExpectedKind(m)}
                    ELSE /\ Keys(v) = {S_touser, S_msgtype, S_agentid,
                                       ExpectedKind(m), S_safe}
                         /\ Get(v, S_touser) = JStr(S_all)
                         /\ Get(v, S_safe) = JInt(0)
                         /\ Get(v, S_agentid) = JStr(m.agent_id)

C7_Witness ==
    /\ lastCall.op = "WecomAppMessage.render_message"
    /\ lastCall.arg.msg_type = "markdown"
    /\ lastCall.arg.title = <<"\"">>
    /\ lastCall.arg.body = <<"\n">>
    /\ lastCall.arg.agent_id = <<"7">>
    /\ lastCall.result.kind = "return"

\* C8: a call of send issues at most one request, a POST: exactly one when
\* the message is of the channel's variant and its msg_type renders, none
\* otherwise; when that POST fails in transport or its reply is not JSON,
\* the failure is raised to the caller and no further request is issued.
C8_AtMostOnePost ==
    lastCall.op \in SendOps =>
        LET right == IF lastCall.op = "WecomWebhook.send"
                     THEN lastCall.arg.variant = "webhook"
                     ELSE lastCall.arg.variant = "app"
        IN  /\ Posts(lastCall.requests) = DOMAIN lastCall.requests
            /\ Len(lastCall.requests)
                  = IF right /\ Supported(lastCall.arg) THEN 1 ELSE 0
            /\ lastCall.reply.kind = "transport" =>
                  lastCall.result = Raised("ConnectionError", <<>>)
            /\ lastCall.reply.kind = "badjson" =>
                  lastCall.result = Raised("JSONDecodeError", <<>>)

C8_Witness ==
    /\ lastCall.op = "WecomApp.send"
    /\ lastCall.reply.kind = "transport"
    /\ Len(lastCall.requests) = 1
    /\ lastCall.result.exc = "ConnectionError"

\* C9: a step that is a call of send, whatever its outcome, leaves every
\* field of both channels as it was (key; corp_id, secret, access_token,
\* agent_id).
C9_SendLeavesChannel ==
    [][lastCall'.op \in SendOps => (webhook' = webhook /\ app' = app)]_vars

C9_Witness ==
    /\ lastCall.op = "WecomApp.send"
    /\ lastCall.result.kind = "return"
    /\ lastCall.arg.has_agent_id
    /\ lastCall.arg.agent_id = <<"7">>
    /\ app.access_token = Token

\* C10: WecomApp.send sets message.agent_id to the channel's agent_id after
\* the variant check and before rendering: the agentid of the payload it
\* POSTs is the channel's agent_id whatever the caller had set; a message of
\* the wrong variant is left as it was; an app message with an unsupported
\* msg_type has its agent_id overwritten although send raises and issues no
\* request.
C10_AgentIdOverwritten ==
    lastCall.op = "WecomApp.send" =>
        /\ \A i \in 1..Len(lastCall.requests) :
              Get(json_loads(lastCall.requests[i].data), S_agentid)
                 = JStr(app.agent_id)
        /\ lastCall.arg.variant # "app" => msg = lastCall.arg
        /\ lastCall.arg.variant = "app" =>
              /\ msg = [lastCall.arg EXCEPT !.has_agent_id = TRUE,
                                            !.agent_id = app.agent_id]
              /\ ~Supported(lastCall.arg) =>
                    /\ lastCall.result = Raised("WecomException", S_unsupported)
                    /\ lastCall.requests = <<>>

C10_Witness ==
    /\ lastCall.op = "WecomApp.send"
    /\ lastCall.arg.variant = "app"
    /\ lastCall.arg.msg_type = "image"
    /\ lastCall.arg.has_agent_id
    /\ lastCall.arg.agent_id = <<"7">>
    /\ msg.agent_id = <<>>
    /\ lastCall.requests = <<>>

=============================================================================
